---- MODULE Spec2Model ----
(***************************************************************************)
(* A model of aardvark's RetrieverRunner (src/aardvark/retrievers/         *)
(* runner.py): run() seeds the account queue or the ARN queue, starts      *)
(* num_workers tasks per queue, joins the three queues in order, cancels   *)
(* the tasks, drains the failure queue and gathers the tasks.              *)
(*                                                                         *)
(* Scheduling is asyncio's: one task runs at a time and hands over only at *)
(* an await that really suspends (Queue.get on an empty queue, Queue.join  *)
(* with unfinished tasks, an external call, gather).  Every action below   *)
(* is the code between two such points.                                    *)
(***************************************************************************)
EXTENDS Integers, Sequences, FiniteSets, TLC

(* ------------------------------ bounds --------------------------------- *)

\* largest updater_num_threads the model configures
MaxWorkers == 2
\* longest `accounts` argument enumerated for _queue_accounts
MaxAccountArgs == 3
\* longest `arns` argument of run()
MaxArnArgs == 2
\* most calls of run() on one RetrieverRunner
MaxRuns == 2

(* ------------------------- strings and tokens -------------------------- *)

\* re_account_id = re.compile(r"\d{12}")
AccountIdLen == 12

\* account names and ids are str; the model keeps them as sequences of
\* code points so that the regular expression can look at them
Rep(c, n) == [i \in 1..n |-> c]

\* the code point of the digit zero of every Unicode decimal digit block
\* (category Nd); the nine code points after it are the digits one to nine
NdZero ==
    {48, 1632, 1776, 1984, 2406, 2534, 2662, 2790, 2918, 3046, 3174, 3302,
     3430, 3558, 3664, 3792, 3872, 4160, 4240, 6112, 6160, 6470, 6608, 6784,
     6800, 6992, 7088, 7232, 7248, 42528, 43216, 43264, 43472, 43504, 43600,
     44016, 65296, 66720, 68912, 69734, 69872, 69942, 70096, 70384, 70736,
     70864, 71248, 71360, 71472, 71904, 72016, 72784, 73040, 73120, 92768,
     92864, 93008, 120782, 120792, 120802, 120812, 120822, 123200, 123632,
     125264, 130032}

\* what \d matches in a str pattern: every Unicode decimal digit
Digits == {z + d : z \in NdZero, d \in 0..9}

\* "111111111111", "222222222222"
ID1 == Rep(49, AccountIdLen)
ID2 == Rep(50, AccountIdLen)
\* eleven times "1" and U+0661 ARABIC-INDIC DIGIT ONE
IDU == Rep(49, AccountIdLen - 1) \o <<1633>>
\* "prod", "p2", "dev", "d1", "prodn"
PROD == <<112, 114, 111, 100>>
P2 == <<112, 50>>
DEV == <<100, 101, 118>>
D1 == <<100, 49>>
PRODN == <<112, 114, 111, 100, 110>>

\* re_account_id.match(account): twelve digits at the start of the string
ReAccountIdMatch(account) ==
    /\ Len(account) >= AccountIdLen
    /\ \A i \in 1..AccountIdLen : account[i] \in Digits

Range(s) == {s[i] : i \in 1..Len(s)}

\* list.remove(x): drops the first element equal to x
RECURSIVE ListRemove(_, _)
ListRemove(s, x) ==
    IF s = <<>> THEN <<>>
    ELSE IF Head(s) = x THEN Tail(s)
    ELSE <<Head(s)>> \o ListRemove(Tail(s), x)

\* all sequences over S of length lo..hi
SeqsOf(S, lo, hi) == UNION {[1..n -> S] : n \in lo..hi}

(* ------------------------------ SWAG ----------------------------------- *)

\* what self.swag returns: account dicts with id, name, schemaVersion and the
\* alias list under "aliases" (schema 2) or "alias" (schema 1)
SwagAccounts ==
    << [id |-> ID2, name |-> PRODN, schemaVersion |-> "2",
        aliases |-> <<PROD, P2>>, alias |-> <<>>],
       [id |-> ID1, name |-> DEV, schemaVersion |-> "1",
        aliases |-> <<>>, alias |-> <<D1>>] >>

(* -------------------------- _queue_accounts ---------------------------- *)

\* for account in accounts: if re_account_id.match(account): put; remove
\* The list iterator reads accounts[i] of the list as it is now, then i + 1.
\* Result: <<the list left in `accounts`, the ids put on the queue>>
RECURSIVE LiteralIdLoop(_, _, _)
LiteralIdLoop(accounts, i, put) ==
    IF i > Len(accounts) THEN <<accounts, put>>
    ELSE IF ReAccountIdMatch(accounts[i])
         THEN LiteralIdLoop(ListRemove(accounts, accounts[i]), i + 1,
                            Append(put, accounts[i]))
         ELSE LiteralIdLoop(accounts, i + 1, put)

\* for alias in account.get(alias_key, []): if alias in accounts: put(id); continue
RECURSIVE AliasLoop(_, _, _)
AliasLoop(aliases, accounts, id) ==
    IF aliases = <<>> THEN <<>>
    ELSE (IF Head(aliases) \in Range(accounts) THEN <<id>> ELSE <<>>)
         \o AliasLoop(Tail(aliases), accounts, id)

\* the body of `for account in all_accounts`: the ids it puts on the queue
AccountMatchPuts(account, accounts) ==
    IF account.name \in Range(accounts) THEN <<account.id>>
    ELSE LET alias_key_v2 == account.schemaVersion = "2"
         IN  AliasLoop(IF alias_key_v2 THEN account.aliases ELSE account.alias,
                       accounts, account.id)

RECURSIVE SwagMatchLoop(_, _)
SwagMatchLoop(all_accounts, accounts) ==
    IF all_accounts = <<>> THEN <<>>
    ELSE AccountMatchPuts(Head(all_accounts), accounts)
         \o SwagMatchLoop(Tail(all_accounts), accounts)

\* _queue_accounts(account_names): what is on the account queue afterwards;
\* swag_ok = FALSE: _get_swag_accounts raised after the first loop
QueueAccounts(account_names, swag_ok) ==
    LET first == LiteralIdLoop(account_names, 1, <<>>)
    IN  IF swag_ok THEN first[2] \o SwagMatchLoop(SwagAccounts, first[1])
        ELSE first[2]

\* the names left for the SWAG lookup after the first loop
NamesToResolve(account_names) == LiteralIdLoop(account_names, 1, <<>>)[1]

\* _queue_all_accounts: account["id"] of every account SWAG returns
RECURSIVE AllAccountIds(_)
AllAccountIds(all_accounts) ==
    IF all_accounts = <<>> THEN <<>>
    ELSE <<Head(all_accounts).id>> \o AllAccountIds(Tail(all_accounts))

(* ------------------------- asyncio.Queue ------------------------------- *)

\* an asyncio.Queue: the deque of pending items and _unfinished_tasks, which
\* put() increments and task_done() decrements (pending + in flight)
EmptyQueue == [items |-> <<>>, unfinished |-> 0]

QPut(q, x) == [items |-> Append(q.items, x), unfinished |-> q.unfinished + 1]

RECURSIVE QPutAll(_, _)
QPutAll(q, xs) ==
    IF xs = <<>> THEN q ELSE QPutAll(QPut(q, Head(xs)), Tail(xs))

\* a get() that leaves the item at the head of the queue
QPeek(q) == q

\* get() when the queue is not empty: the item leaves the deque, stays unfinished
QGet(q) == [q EXCEPT !.items = Tail(@)]

QTaskDone(q) == [q EXCEPT !.unfinished = @ - 1]

\* a join() that looked at the pending items only, as Queue.empty() does
JoinedWhenEmpty(q) == q.items = <<>>

\* join() returns: _unfinished_tasks is 0
Joined(q) == q.unfinished = 0

(* ----------------------- external collaborators ------------------------ *)

Arns == {"r1", "u1", "r2"}

\* the awaited calls of _get_arns_for_account, in order: boto3_cached_conn,
\* list_roles, list_users, list_policies pages, list_groups pages
NumEnumCalls == 5

\* the ARNs call number k returns for an account (call 1 opens the connection)
Enumerate(account, k) ==
    IF account = ID1 THEN (IF k = 2 THEN <<"r1">> ELSE IF k = 5 THEN <<"u1">> ELSE <<>>)
    ELSE IF account = ID2 THEN (IF k = 3 THEN <<"r2">> ELSE <<>>)
    ELSE <<>>

\* which call raises for which account (0: none)
EnumFailChoices ==
    { [a \in {ID1, ID2} |-> 0],
      [a \in {ID1, ID2} |-> IF a = ID1 THEN 4 ELSE 0],
      [a \in {ID1, ID2} |-> IF a = ID2 THEN 1 ELSE 0] }

\* retriever plugins: run(arn, data) sets or deletes one key of data and
\* returns it, or raises for the ARNs in failsOn
SetX1 == [op |-> "set", field |-> "x", value |-> "1", failsOn |-> {}]
SetX2 == [op |-> "set", field |-> "x", value |-> "2", failsOn |-> {}]
SetY == [op |-> "set", field |-> "y", value |-> "1", failsOn |-> {"r2"}]
DelArn == [op |-> "del", field |-> "arn", value |-> "", failsOn |-> {}]

\* AccessAdvisorRetriever(): writes data["access_advisor"]
AccessAdvisorRetriever(fails) ==
    [op |-> "set", field |-> "access_advisor", value |-> "aa", failsOn |-> fails]

\* the retrievers registered before run() is called
Registered == {<<>>, <<SetX1, SetY, SetX2>>, <<DelArn>>}

AAFailSets == {{}, {"r1"}}
StoreFailSets == {{}, {"u1"}}

Fields == {"arn", "x", "y", "access_advisor"}

\* data = r.run(arn, data) when it returns
RetrieverRun(r, data) ==
    IF r.op = "set"
    THEN [f \in DOMAIN data \cup {r.field} |->
             IF f = r.field THEN r.value ELSE data[f]]
    ELSE [f \in DOMAIN data \ {r.field} |-> data[f]]

NoData == [f \in {} |-> ""]

(* ------------------------------ state ---------------------------------- *)

VARIABLES
    pc,             \* where run() is
    num_workers,    \* self.num_workers
    retrievers,     \* self.retrievers
    arg_accounts,   \* run(accounts=...)
    arg_arns,       \* run(arns=...)
    enum_fail,      \* the enumeration call that raises, per account
    store_fails,    \* the ARNs whose store_role_data call raises
    account_queue, arn_queue, results_queue,
    failure_queue,  \* its pending items
    failed_arns,    \* self.failed_arns
    tasks,          \* self.tasks, in creation order
    task,           \* each task's position and locals
    db,             \* what store_role_data has stored: arn -> access_advisor
    reported,       \* what run() has logged with log.error("failure: %s")
    swag_calls,     \* calls of _get_swag_accounts
    arn_puts,       \* per ARN, the puts on arn_queue
    enum_calls,     \* the accounts for which _get_arns_for_account was called
    results_log,    \* <<arn, data>> of every put on results_queue
    store_calls,    \* per ARN, the store_role_data calls
    store_writes,   \* per ARN, the store_role_data calls that returned
    failure_puts,   \* every item put on failure_queue, in order
    step_log,       \* <<arn, k, data>>: retriever number k was run on data
    runs            \* the calls of run() that came before this one

vars == <<pc, num_workers, retrievers, arg_accounts, arg_arns, enum_fail,
          store_fails, account_queue, arn_queue, results_queue, failure_queue,
          failed_arns, tasks, task, db, reported, swag_calls, arn_puts,
          enum_calls, results_log, store_calls, store_writes, failure_puts,
          step_log, runs>>

env_vars == <<num_workers, runs, enum_fail, store_fails>>
hist_vars == <<swag_calls, arn_puts, enum_calls, results_log, store_calls,
              store_writes, step_log>>

\* a task blocked in (or not yet arrived at) its queue's get()
IdleTask ==
    [st |-> "get", account |-> <<>>, arn |-> "", data |-> NoData, k |-> 0,
     cancel |-> FALSE]

Pool(w) == w[1]

\* a task of an earlier run() stays as it ended, a created one starts its loop
NewTask(w) == IF w \in DOMAIN task THEN task[w] ELSE IdleTask

\* the tasks run() creates for one queue: f"{pool}-worker-{i}"
PoolTasks(pool, n) == [i \in 1..n |-> <<pool, i, runs>>]

NoEnumFail == [a \in {ID1, ID2} |-> 0]

Init ==
    /\ pc = "idle"
    /\ num_workers \in 1..MaxWorkers
    /\ retrievers \in Registered
    /\ arg_accounts = <<>>
    /\ arg_arns = <<>>
    /\ enum_fail = NoEnumFail
    /\ store_fails = {}
    /\ account_queue = EmptyQueue
    /\ arn_queue = EmptyQueue
    /\ results_queue = EmptyQueue
    /\ failure_queue = <<>>
    /\ failed_arns = <<>>
    /\ tasks = <<>>
    /\ task = [w \in {} |-> IdleTask]
    /\ db = [a \in {} |-> ""]
    /\ reported = <<>>
    /\ swag_calls = 0
    /\ arn_puts = [a \in Arns |-> 0]
    /\ enum_calls = <<>>
    /\ results_log = {}
    /\ store_calls = [a \in Arns |-> 0]
    /\ store_writes = [a \in Arns |-> 0]
    /\ failure_puts = <<>>
    /\ step_log = {}
    /\ runs = 0

(* ------------------------- run(): seeding ------------------------------ *)

\* the `arns` arguments run() is called with
RunArnArgs == SeqsOf({"r1", "r2"}, 1, MaxArnArgs)

\* the `accounts` arguments run() is called with when the whole pipeline runs
RunAccountArgs == {<<ID1>>, <<PROD, P2>>, <<ID1, ID2>>, <<DEV, P2>>}

\* every `accounts` argument of up to MaxAccountArgs names or ids, each
\* requested once
AllAccountArgs ==
    {a \in SeqsOf({ID1, ID2, IDU, PROD, P2, DEV}, 1, MaxAccountArgs) :
        \A i, j \in 1..Len(a) : i # j => a[i] # a[j]}

\* lookup workers started whether or not accounts were looked up
CreatedTasksAllPools(lookup_accounts, n) ==
    PoolTasks("arn-lookup", n) \o PoolTasks("retriever", n) \o PoolTasks("results", n)

\* twice num_workers tasks per pool
CreatedTasksTwice(lookup_accounts, n) ==
    (IF lookup_accounts THEN PoolTasks("arn-lookup", 2 * n) ELSE <<>>)
    \o PoolTasks("retriever", 2 * n) \o PoolTasks("results", 2 * n)

\* run() 256-269: the tasks created, lookup workers only if accounts were looked up
CreatedTasks(lookup_accounts, n) ==
    (IF lookup_accounts THEN PoolTasks("arn-lookup", n) ELSE <<>>)
    \o PoolTasks("retriever", n) \o PoolTasks("results", n)

RECURSIVE CountPuts(_, _)
CountPuts(xs, a) ==
    IF xs = <<>> THEN 0
    ELSE (IF Head(xs) = a THEN 1 ELSE 0) + CountPuts(Tail(xs), a)

\* run(arns=arns) with a non-empty list: _queue_arns, no account lookup
SeedArns(arnArgs, accountArgs) ==
    /\ pc = "idle"
    /\ \E arns \in arnArgs, accounts \in accountArgs,
          aaf \in AAFailSets, sf \in StoreFailSets :
        /\ arg_arns' = arns
        /\ arg_accounts' = accounts
        /\ retrievers' = Append(retrievers, AccessAdvisorRetriever(aaf))
        /\ store_fails' = sf
        /\ arn_queue' = QPutAll(EmptyQueue, arns)
        /\ arn_puts' = [a \in Arns |-> CountPuts(arns, a)]
        /\ tasks' = tasks \o CreatedTasks(FALSE, num_workers)
        /\ task' = [w \in Range(tasks') |-> NewTask(w)]
        /\ pc' = "join_accounts"
    \* run() 239-242: every run() creates its four queues
    /\ account_queue' = EmptyQueue
    /\ results_queue' = EmptyQueue
    /\ failure_queue' = <<>>
    /\ UNCHANGED <<num_workers, runs, enum_fail, failure_puts, failed_arns, db,
                   reported, swag_calls, enum_calls, results_log, store_calls,
                   store_writes, step_log>>

\* a run() that created its workers before the SWAG lookup ended
SwagSeededWorkersFirst(q, queued, swag_ok) ==
    /\ account_queue' = QPutAll(q, queued)
    /\ tasks' = tasks \o CreatedTasks(TRUE, num_workers)
    /\ task' = [w \in Range(tasks') |-> NewTask(w)]
    /\ pc' = IF swag_ok THEN "join_accounts" ELSE "raised"

\* _get_swag_accounts returned or raised: the ids of what it returned are
\* put on the account queue and the workers are started (run() 256-269), or
\* RetrieverException is raised out of run()
SwagSeeded(q, queued, swag_ok) ==
    /\ account_queue' = QPutAll(q, queued)
    /\ tasks' = IF swag_ok THEN tasks \o CreatedTasks(TRUE, num_workers) ELSE tasks
    /\ task' = [w \in Range(tasks') |-> NewTask(w)]
    /\ pc' = IF swag_ok THEN "join_accounts" ELSE "raised"

\* _get_swag_accounts is called on the new account queue q: self.swag.get_all
\* (line 164) raises at once, or returns and run() is suspended in
\* `await sync_to_async(...)` (lines 167, 171) until SWAG answers
SwagCalled(q, get_all_ok) ==
    /\ swag_calls' = swag_calls + 1
    /\ IF get_all_ok
       THEN /\ account_queue' = q
            /\ pc' = "swag"
            /\ UNCHANGED <<tasks, task>>
       ELSE SwagSeeded(q, <<>>, FALSE)

\* run(accounts=accounts) with a non-empty list and no arns: the first loop
\* of _queue_accounts puts the literal ids, then _get_swag_accounts is called
SeedAccounts(accountArgs) ==
    /\ pc = "idle"
    /\ \E accounts \in accountArgs, get_all_ok \in BOOLEAN,
          aaf \in AAFailSets, sf \in StoreFailSets, ef \in EnumFailChoices :
        /\ arg_arns' = <<>>
        /\ arg_accounts' = accounts
        /\ retrievers' = Append(retrievers, AccessAdvisorRetriever(aaf))
        /\ store_fails' = sf
        /\ enum_fail' = ef
        /\ SwagCalled(QPutAll(EmptyQueue, QueueAccounts(accounts, FALSE)),
                      get_all_ok)
    \* run() 239-242: every run() creates its four queues
    /\ arn_queue' = EmptyQueue
    /\ arn_puts' = [a \in Arns |-> 0]
    /\ results_queue' = EmptyQueue
    /\ failure_queue' = <<>>
    /\ UNCHANGED <<num_workers, runs, failure_puts, failed_arns, db, reported,
                   enum_calls, results_log, store_calls, store_writes, step_log>>

\* run() with neither: _queue_all_accounts calls _get_swag_accounts
SeedAllAccounts ==
    /\ pc = "idle"
    /\ \E get_all_ok \in BOOLEAN,
          aaf \in AAFailSets, sf \in StoreFailSets, ef \in EnumFailChoices :
        /\ arg_arns' = <<>>
        /\ arg_accounts' = <<>>
        /\ retrievers' = Append(retrievers, AccessAdvisorRetriever(aaf))
        /\ store_fails' = sf
        /\ enum_fail' = ef
        /\ SwagCalled(EmptyQueue, get_all_ok)
    \* run() 239-242: every run() creates its four queues
    /\ arn_queue' = EmptyQueue
    /\ arn_puts' = [a \in Arns |-> 0]
    /\ results_queue' = EmptyQueue
    /\ failure_queue' = <<>>
    /\ UNCHANGED <<num_workers, runs, failure_puts, failed_arns, db, reported,
                   enum_calls, results_log, store_calls, store_writes, step_log>>

\* the awaited SWAG call returns or raises: the second loop of
\* _queue_accounts, or the loop of _queue_all_accounts, puts the ids
SwagAnswered ==
    /\ pc = "swag"
    /\ \E swag_ok \in BOOLEAN :
        SwagSeeded(account_queue,
                   IF ~swag_ok THEN <<>>
                   ELSE IF arg_accounts # <<>>
                        THEN SwagMatchLoop(SwagAccounts, NamesToResolve(arg_accounts))
                        ELSE AllAccountIds(SwagAccounts),
                   swag_ok)
    /\ UNCHANGED <<num_workers, runs, retrievers, arg_accounts, arg_arns,
                   enum_fail, store_fails, arn_queue, results_queue,
                   failure_queue, failure_puts, failed_arns, db, reported,
                   swag_calls, arn_puts, enum_calls, results_log, store_calls,
                   store_writes, step_log>>

(* ----------------------------- workers --------------------------------- *)

\* run() is suspended in an await, or has returned, and the event loop runs
\* the other tasks
RunSuspended ==
    pc \in {"swag", "join_accounts", "join_arns", "join_results", "gather", "done"}

\* the task may be resumed and has not been told to cancel
Runnable(w, pool, st) ==
    /\ RunSuspended
    /\ w \in DOMAIN task
    /\ Pool(w) = pool
    /\ task[w].st = st
    /\ ~task[w].cancel

\* what a loop puts on failure_queue: the account (_arn_lookup_loop), the
\* ARN (_retriever_loop) or the record (_results_loop)
FailedAccount(account) ==
    [stage |-> "arn-lookup", account |-> account, arn |-> "", data |-> NoData]
FailedArn(arn) ==
    [stage |-> "retriever", account |-> <<>>, arn |-> arn, data |-> NoData]
FailedRecord(data) ==
    [stage |-> "results", account |-> <<>>, arn |-> "", data |-> data]

EnumFailAt(account) ==
    IF account \in DOMAIN enum_fail THEN enum_fail[account] ELSE 0

\* _arn_lookup_loop: account = await self.account_queue.get(), up to the first
\* awaited call of _get_arns_for_account
LookupGet(w) ==
    /\ Runnable(w, "arn-lookup", "get")
    /\ account_queue.items # <<>>
    /\ task' = [task EXCEPT ![w] = [@ EXCEPT !.st = "call",
                                             !.account = Head(account_queue.items),
                                             !.k = 1]]
    /\ account_queue' = QGet(account_queue)
    /\ enum_calls' = Append(enum_calls, Head(account_queue.items))
    /\ UNCHANGED <<pc, retrievers, arg_accounts, arg_arns, env_vars, arn_queue,
                   results_queue, failure_queue, failure_puts, failed_arns, tasks, db,
                   reported, swag_calls, arn_puts, results_log, store_calls, store_writes, step_log>>

\* an except branch that acknowledges the account without putting it on
\* failure_queue
LookupCallUnreported(w) ==
    /\ Runnable(w, "arn-lookup", "call")
    /\ LET account == task[w].account
           k == task[w].k
           found == Enumerate(account, k)
       IN  IF EnumFailAt(account) = k
           THEN /\ UNCHANGED <<failure_queue, failure_puts>>
                /\ account_queue' = QTaskDone(account_queue)
                /\ task' = [task EXCEPT ![w] = IdleTask]
                /\ UNCHANGED <<arn_queue, arn_puts>>
           ELSE /\ arn_queue' = QPutAll(arn_queue, found)
                /\ arn_puts' = [a \in Arns |-> arn_puts[a] + CountPuts(found, a)]
                /\ IF k = NumEnumCalls
                   THEN /\ account_queue' = QTaskDone(account_queue)
                        /\ task' = [task EXCEPT ![w] = IdleTask]
                   ELSE /\ task' = [task EXCEPT ![w].k = k + 1]
                        /\ UNCHANGED account_queue
                /\ UNCHANGED <<failure_queue, failure_puts>>
    /\ UNCHANGED <<pc, retrievers, arg_accounts, arg_arns, env_vars,
                   results_queue, failed_arns, tasks, db, reported, swag_calls,
                   enum_calls, results_log, store_calls, store_writes, step_log>>

\* one awaited call of _get_arns_for_account returns or raises; what it
\* returned is put on arn_queue; after the last call, or on an exception
\* (failure_queue.put(account)), account_queue.task_done() and back to get()
LookupCall(w) ==
    /\ Runnable(w, "arn-lookup", "call")
    /\ LET account == task[w].account
           k == task[w].k
           found == Enumerate(account, k)
       IN  IF EnumFailAt(account) = k
           THEN /\ failure_queue' = Append(failure_queue, FailedAccount(account))
                /\ failure_puts' = Append(failure_puts, FailedAccount(account))
                /\ account_queue' = QTaskDone(account_queue)
                /\ task' = [task EXCEPT ![w] = IdleTask]
                /\ UNCHANGED <<arn_queue, arn_puts>>
           ELSE /\ arn_queue' = QPutAll(arn_queue, found)
                /\ arn_puts' = [a \in Arns |-> arn_puts[a] + CountPuts(found, a)]
                /\ IF k = NumEnumCalls
                   THEN /\ account_queue' = QTaskDone(account_queue)
                        /\ task' = [task EXCEPT ![w] = IdleTask]
                   ELSE /\ task' = [task EXCEPT ![w].k = k + 1]
                        /\ UNCHANGED account_queue
                /\ UNCHANGED <<failure_queue, failure_puts>>
    /\ UNCHANGED <<pc, retrievers, arg_accounts, arg_arns, env_vars,
                   results_queue, failed_arns, tasks, db, reported, swag_calls,
                   enum_calls, results_log, store_calls, store_writes, step_log>>

\* _retriever_loop: arn = await self.arn_queue.get(); _run_retrievers starts
\* with data = {"arn": arn} and awaits the first retriever
RetrieverGet(w) ==
    /\ Runnable(w, "retriever", "get")
    /\ arn_queue.items # <<>>
    /\ task' = [task EXCEPT ![w] = [@ EXCEPT !.st = "call",
                                             !.arn = Head(arn_queue.items),
                                             !.data = [arn |-> Head(arn_queue.items)],
                                             !.k = 1]]
    /\ arn_queue' = QGet(arn_queue)
    /\ UNCHANGED <<pc, retrievers, arg_accounts, arg_arns, env_vars,
                   account_queue, results_queue, failure_queue, failure_puts, failed_arns,
                   tasks, db, reported, hist_vars>>

\* an except branch that appends to failed_arns and acknowledges the ARN but
\* never puts it on failure_queue
RetrieverFailedUnreported(w, arn) ==
    /\ failed_arns' = Append(failed_arns, arn)
    /\ arn_queue' = QTaskDone(arn_queue)
    /\ task' = [task EXCEPT ![w] = IdleTask]
    /\ UNCHANGED <<results_queue, results_log, failure_queue, failure_puts>>

\* an except branch that also hands the seed record to the results queue
RetrieverFailedButQueued(w, arn) ==
    /\ failed_arns' = Append(failed_arns, arn)
    /\ failure_queue' = Append(failure_queue, FailedArn(arn))
    /\ failure_puts' = Append(failure_puts, FailedArn(arn))
    /\ results_queue' = QPut(results_queue, task[w].data)
    /\ results_log' = results_log \cup {<<arn, task[w].data>>}
    /\ arn_queue' = QTaskDone(arn_queue)
    /\ task' = [task EXCEPT ![w] = IdleTask]

\* the except branch of _retriever_loop
RetrieverFailed(w, arn) ==
    /\ failed_arns' = Append(failed_arns, arn)
    /\ failure_queue' = Append(failure_queue, FailedArn(arn))
    /\ failure_puts' = Append(failure_puts, FailedArn(arn))
    /\ arn_queue' = QTaskDone(arn_queue)
    /\ task' = [task EXCEPT ![w] = IdleTask]
    /\ UNCHANGED <<results_queue, results_log>>

\* _run_retrievers returned data: results_queue.put(data), arn_queue.task_done()
RetrieverDone(w, arn, data) ==
    /\ results_queue' = QPut(results_queue, data)
    /\ results_log' = results_log \cup {<<arn, data>>}
    /\ arn_queue' = QTaskDone(arn_queue)
    /\ task' = [task EXCEPT ![w] = IdleTask]
    /\ UNCHANGED <<failed_arns, failure_queue, failure_puts>>

\* a chain that goes on to the next retriever when one raises, and fails
\* the ARN only if the last one raises
RetrieverCallGoesOn(w) ==
    /\ Runnable(w, "retriever", "call")
    /\ LET arn == task[w].arn
           k == task[w].k
           r == retrievers[k]
           data == IF arn \in r.failsOn THEN task[w].data
                   ELSE RetrieverRun(r, task[w].data)
       IN  /\ step_log' = step_log \cup {<<arn, k, task[w].data>>}
           /\ IF k = Len(retrievers)
              THEN IF arn \in r.failsOn THEN RetrieverFailed(w, arn)
                   ELSE RetrieverDone(w, arn, data)
              ELSE /\ task' = [task EXCEPT ![w] = [@ EXCEPT !.data = data,
                                                            !.k = k + 1]]
                   /\ UNCHANGED <<arn_queue, results_queue, results_log,
                                  failed_arns, failure_queue, failure_puts>>
    /\ UNCHANGED <<pc, retrievers, arg_accounts, arg_arns, env_vars,
                   account_queue, tasks, db, reported, swag_calls, arn_puts,
                   enum_calls, store_calls, store_writes>>

\* data = await r.run(arn, data) for retriever number k returns or raises
RetrieverCall(w) ==
    /\ Runnable(w, "retriever", "call")
    /\ LET arn == task[w].arn
           k == task[w].k
           r == retrievers[k]
           data == RetrieverRun(r, task[w].data)
       IN  /\ step_log' = step_log \cup {<<arn, k, task[w].data>>}
           /\ IF arn \in r.failsOn THEN RetrieverFailed(w, arn)
              ELSE IF k = Len(retrievers) THEN RetrieverDone(w, arn, data)
              ELSE /\ task' = [task EXCEPT ![w] = [@ EXCEPT !.data = data,
                                                            !.k = k + 1]]
                   /\ UNCHANGED <<arn_queue, results_queue, results_log,
                                  failed_arns, failure_queue, failure_puts>>
    /\ UNCHANGED <<pc, retrievers, arg_accounts, arg_arns, env_vars,
                   account_queue, tasks, db, reported, swag_calls, arn_puts,
                   enum_calls, store_calls, store_writes>>

\* _results_loop: data = await self.results_queue.get(); log.debug reads
\* data['arn'] outside the try (KeyError ends the task); inside the try,
\* data["access_advisor"] is read before store_role_data is awaited
ResultsGet(w) ==
    /\ Runnable(w, "results", "get")
    /\ results_queue.items # <<>>
    /\ LET data == Head(results_queue.items)
       IN  IF "arn" \notin DOMAIN data
           THEN /\ task' = [task EXCEPT ![w] = [@ EXCEPT !.st = "dead", !.data = data]]
                /\ results_queue' = QGet(results_queue)
                /\ UNCHANGED <<failure_queue, failure_puts>>
           ELSE IF "access_advisor" \notin DOMAIN data
           THEN /\ failure_queue' = Append(failure_queue, FailedRecord(data))
                /\ failure_puts' = Append(failure_puts, FailedRecord(data))
                /\ results_queue' = QTaskDone(QGet(results_queue))
                /\ UNCHANGED task
           ELSE /\ task' = [task EXCEPT ![w] = [@ EXCEPT !.st = "store", !.data = data]]
                /\ results_queue' = QGet(results_queue)
                /\ UNCHANGED <<failure_queue, failure_puts>>
    /\ UNCHANGED <<pc, retrievers, arg_accounts, arg_arns, env_vars,
                   account_queue, arn_queue, failed_arns, tasks, db, reported,
                   hist_vars>>

\* persistence.store_role_data({arn: access_advisor})
StoreRoleData(store, data) ==
    [a \in DOMAIN store \cup {data.arn} |->
        IF a = data.arn THEN data.access_advisor ELSE store[a]]

\* the awaited store_role_data call returns or raises; on an exception
\* failure_queue.put(data); results_queue.task_done() either way
ResultsStore(w) ==
    /\ Runnable(w, "results", "store")
    /\ LET data == task[w].data
       IN  /\ store_calls' = [store_calls EXCEPT ![data.arn] = @ + 1]
           /\ IF data.arn \in store_fails
              THEN /\ failure_queue' = Append(failure_queue, FailedRecord(data))
                   /\ failure_puts' = Append(failure_puts, FailedRecord(data))
                   /\ UNCHANGED <<db, store_writes, step_log>>
              ELSE /\ db' = StoreRoleData(db, data)
                   /\ store_writes' = [store_writes EXCEPT ![data.arn] = @ + 1]
                   /\ UNCHANGED <<failure_queue, failure_puts>>
    /\ results_queue' = QTaskDone(results_queue)
    /\ task' = [task EXCEPT ![w] = IdleTask]
    /\ UNCHANGED <<pc, retrievers, arg_accounts, arg_arns, env_vars,
                   account_queue, arn_queue, failed_arns, tasks, reported,
                   swag_calls, arn_puts, enum_calls, results_log, step_log>>

\* a task whose cancel() was called is resumed with CancelledError, which no
\* `except Exception` of the loops catches
TaskCancelled(w) ==
    /\ RunSuspended
    /\ w \in DOMAIN task
    /\ task[w].cancel
    /\ task[w].st \notin {"cancelled", "dead"}
    /\ task' = [task EXCEPT ![w].st = "cancelled"]
    /\ UNCHANGED <<pc, retrievers, arg_accounts, arg_arns, env_vars,
                   account_queue, arn_queue, results_queue, failure_queue, failure_puts,
                   failed_arns, tasks, db, reported, hist_vars>>

(* ------------------ run(): join, cancel, report, gather ---------------- *)

run_frame == <<num_workers, retrievers, arg_accounts, arg_arns, enum_fail,
               store_fails, account_queue, arn_queue, results_queue,
               failed_arns, tasks, db, swag_calls, arn_puts, enum_calls,
               results_log, store_calls, store_writes, failure_puts, step_log,
               runs>>

\* await self.account_queue.join()
JoinAccounts ==
    /\ pc = "join_accounts"
    /\ Joined(account_queue)
    /\ pc' = "join_arns"
    /\ UNCHANGED <<run_frame, task, failure_queue, reported>>

\* await self.arn_queue.join()
JoinArns ==
    /\ pc = "join_arns"
    /\ Joined(arn_queue)
    /\ pc' = "join_results"
    /\ UNCHANGED <<run_frame, task, failure_queue, reported>>

\* a run() that calls cancel() without awaiting results_queue.join()
JoinResultsNoWait ==
    /\ pc = "join_results"
    /\ pc' = "cancel"
    /\ UNCHANGED <<run_frame, task, failure_queue, reported>>

\* await self.results_queue.join()
JoinResults ==
    /\ pc = "join_results"
    /\ Joined(results_queue)
    /\ pc' = "cancel"
    /\ UNCHANGED <<run_frame, task, failure_queue, reported>>

\* cancel(): task.cancel() for every task of self.tasks; a finished task
\* stays as it is
Cancel ==
    /\ pc = "cancel"
    /\ task' = [w \in DOMAIN task |->
                  IF task[w].st \in {"cancelled", "dead"} THEN task[w]
                  ELSE [task[w] EXCEPT !.cancel = TRUE]]
    /\ pc' = "report"
    /\ UNCHANGED <<run_frame, failure_queue, reported>>

\* while not self.failure_queue.empty(): get one and log it
ReportFailure ==
    /\ pc = "report"
    /\ failure_queue # <<>>
    /\ reported' = Append(reported, Head(failure_queue))
    /\ failure_queue' = Tail(failure_queue)
    /\ UNCHANGED <<pc, run_frame, task>>

\* a run() that goes on to asyncio.gather with failures still queued
ReportEndEarly ==
    /\ pc = "report"
    /\ pc' = "gather"
    /\ UNCHANGED <<run_frame, task, failure_queue, reported>>

\* the failure queue is empty: run() goes on to asyncio.gather
ReportEnd ==
    /\ pc = "report"
    /\ failure_queue = <<>>
    /\ pc' = "gather"
    /\ UNCHANGED <<run_frame, task, failure_queue, reported>>

\* a run() that returned without awaiting its tasks
NotAwaited == TRUE

\* every task of self.tasks is done
Gathered == \A w \in Range(tasks) : task[w].st \in {"cancelled", "dead"}

\* await asyncio.gather(*self.tasks, return_exceptions=True) returns
Gather ==
    /\ pc = "gather"
    /\ Gathered
    /\ pc' = "done"
    /\ UNCHANGED <<run_frame, task, failure_queue, reported>>

\* run() is called again on the same RetrieverRunner after it returned or
\* raised
RunAgain ==
    /\ pc \in {"done", "raised"}
    /\ runs + 1 < MaxRuns
    /\ runs' = runs + 1
    /\ pc' = "idle"
    /\ UNCHANGED <<num_workers, retrievers, arg_accounts, arg_arns, enum_fail,
                   store_fails, account_queue, arn_queue, results_queue,
                   failure_queue, failed_arns, tasks, task, db, reported,
                   swag_calls, arn_puts, enum_calls, results_log, store_calls,
                   store_writes, failure_puts, step_log>>

(* --------------------------- specifications ---------------------------- *)

Next ==
    \/ SeedArns(RunArnArgs, {<<>>, <<PROD>>})
    \/ SeedAccounts(RunAccountArgs)
    \/ SeedAllAccounts
    \/ SwagAnswered
    \/ JoinAccounts
    \/ JoinArns
    \/ JoinResults
    \/ Cancel
    \/ ReportFailure
    \/ ReportEnd
    \/ Gather
    \/ \E w \in DOMAIN task : LookupGet(w)
    \/ \E w \in DOMAIN task : LookupCall(w)
    \/ \E w \in DOMAIN task : RetrieverGet(w)
    \/ \E w \in DOMAIN task : RetrieverCall(w)
    \/ \E w \in DOMAIN task : ResultsGet(w)
    \/ \E w \in DOMAIN task : ResultsStore(w)
    \/ \E w \in DOMAIN task : TaskCancelled(w)

Spec == Init /\ [][Next]_vars

\* _queue_accounts alone, over every accounts argument
NextSeed ==
    \/ SeedAccounts(AllAccountArgs)
    \/ SwagAnswered

SeedSpec == Init /\ [][NextSeed]_vars

\* the `arns` arguments of the runs of a RetrieverRunner that is run again
RerunArnArgs == {<<"r1">>, <<"r1", "r2">>}

\* run(arns=...) called up to MaxRuns times on one RetrieverRunner
NextRerun ==
    \/ SeedArns(RerunArnArgs, {<<>>})
    \/ JoinAccounts
    \/ JoinArns
    \/ JoinResults
    \/ Cancel
    \/ ReportFailure
    \/ ReportEnd
    \/ Gather
    \/ RunAgain
    \/ \E w \in DOMAIN task : RetrieverGet(w)
    \/ \E w \in DOMAIN task : RetrieverCall(w)
    \/ \E w \in DOMAIN task : ResultsGet(w)
    \/ \E w \in DOMAIN task : ResultsStore(w)
    \/ \E w \in DOMAIN task : TaskCancelled(w)

RerunSpec == Init /\ [][NextRerun]_vars

\* the event loop resumes every task that is ready
FairSpec == Spec /\ WF_vars(Next)

(* ------------------------------ claims --------------------------------- *)

\* a queue with nothing pending and nothing in flight
Drained(q) == q.items = <<>> /\ q.unfinished = 0

InFlight(q) == q.unfinished - Len(q.items)

\* cancel() has been called
CancelSent == pc \in {"report", "gather", "done"}

\* a task between a get() and the task_done() of the item it took
MidItem(w) == task[w].st \in {"call", "store", "dead"}

\* C1: the cancellation signal is sent, and run() returns, only after the
\* account, ARN and results queues each have nothing pending and nothing in
\* flight, and no task is in the middle of an item when cancel() is called.
C1_CancelOnlyAfterDrain ==
    (pc = "cancel" \/ CancelSent) =>
        /\ Drained(account_queue)
        /\ Drained(arn_queue)
        /\ Drained(results_queue)
        /\ \A w \in DOMAIN task : ~MidItem(w)

\* a run that returned after accounts were enumerated, a chain failed and
\* records were stored by two workers per pool
C1_Witness ==
    /\ pc = "done"
    /\ num_workers = 2
    /\ Len(enum_calls) = 2
    /\ failed_arns # <<>>
    /\ \E a \in Arns : store_writes[a] > 0

\* every FailureEvent put on failure_queue so far, logged or not
AllFailures == reported \o failure_queue

RECURSIVE CountEvents(_, _, _)
CountEvents(events, stage, arn) ==
    IF events = <<>> THEN 0
    ELSE (IF /\ Head(events).stage = stage
             /\ IF stage = "retriever" THEN Head(events).arn = arn
                ELSE Head(events).data.arn = arn
          THEN 1 ELSE 0)
         + CountEvents(Tail(events), stage, arn)

\* C2: when run() returns, every ARN put on arn_queue has one outcome per
\* put: its record was stored, or the ARN is on the failure queue (chain
\* failure), or its record is (storage failure); nothing is lost or handled
\* twice, whatever failed for other items.
C2_OneOutcomePerArn ==
    pc = "done" =>
        \A a \in Arns :
            arn_puts[a] = store_writes[a]
                          + CountEvents(AllFailures, "retriever", a)
                          + CountEvents(AllFailures, "results", a)

\* a run that returned with one ARN stored, one failed in the chain and one
\* failed in storage
C2_Witness ==
    /\ pc = "done"
    /\ \E a, b, c \in Arns :
        /\ store_writes[a] = 1
        /\ CountEvents(AllFailures, "retriever", b) = 1
        /\ CountEvents(AllFailures, "results", c) = 1

\* a retriever of the chain raises for the ARN
ChainFails(a) ==
    /\ pc # "idle"
    /\ \E k \in 1..Len(retrievers) : a \in retrievers[k].failsOn

\* the retriever number at which the chain fails for the ARN
FailingStep(a) ==
    CHOOSE k \in 1..Len(retrievers) :
        /\ a \in retrievers[k].failsOn
        /\ \A j \in 1..(k - 1) : a \notin retrievers[j].failsOn

\* C3: an ARN whose chain fails at some retriever is put on the failure queue
\* (and on failed_arns) once per time it was queued, and no record for it is
\* ever put on results_queue or handed to store_role_data.
C3_ChainFailureIsolated ==
    \A a \in Arns :
        ChainFails(a) =>
            /\ \A e \in results_log : e[1] # a
            /\ store_calls[a] = 0
            /\ a \notin DOMAIN db
            /\ arn_puts[a] >= CountEvents(AllFailures, "retriever", a)
            /\ CountPuts(failed_arns, a) = CountEvents(AllFailures, "retriever", a)
            /\ pc \in {"join_results", "cancel", "report", "gather", "done"}
                   => CountEvents(AllFailures, "retriever", a) = arn_puts[a]

\* a run that returned after the chain failed for an enumerated ARN at its
\* second retriever while another ARN was stored
C3_Witness ==
    /\ pc = "done"
    /\ \E a \in Arns :
        /\ ChainFails(a)
        /\ FailingStep(a) = 2
        /\ arn_puts[a] > 0
        /\ a \in Range(failed_arns)
    /\ \E b \in Arns : store_writes[b] > 0

\* the last retriever that writes the field (0: none does)
LastTouch(f) ==
    LET ks == {k \in 1..Len(retrievers) :
                  retrievers[k].field = f /\ retrievers[k].op = "set"}
    IN  IF ks = {} THEN 0 ELSE CHOOSE k \in ks : \A j \in ks : j <= k

\* the record holds "arn", every field a retriever wrote with the value of
\* the last one that wrote it, and nothing else
RecordOK(arn, data) ==
    /\ "arn" \in DOMAIN data
    /\ \A f \in Fields :
        LET k == LastTouch(f)
        IN  IF k = 0
            THEN IF f = "arn" THEN data[f] = arn ELSE f \notin DOMAIN data
            ELSE f \in DOMAIN data /\ data[f] = retrievers[k].value

\* C4: the record put on results_queue for an ARN holds "arn" and every field
\* the registered retrievers wrote, each with the value of the latest
\* retriever that wrote it.
C4_RecordIsFoldOfChain ==
    /\ \A e \in results_log : RecordOK(e[1], e[2])
    /\ \A i \in 1..Len(results_queue.items) :
          \E e \in results_log : e[2] = results_queue.items[i]

\* C5: once seeding has succeeded, run() eventually returns, for every seed
\* set, every number of workers and every pattern of enumeration, chain and
\* storage failures.
C5_RunReturns == (pc = "join_accounts") ~> (pc = "done")

\* a worker loop takes a step other than ending with CancelledError
WorkerStep ==
    \E w \in DOMAIN task :
        \/ LookupGet(w)
        \/ LookupCall(w)
        \/ RetrieverGet(w)
        \/ RetrieverCall(w)
        \/ ResultsGet(w)
        \/ ResultsStore(w)

\* C6: after run() has returned every task of every pool has terminated, and
\* none can dequeue an item, put anything on a queue or the failure queue, or
\* store.
C6_NoTaskAfterReturn ==
    pc = "done" =>
        /\ \A w \in Range(tasks) : task[w].st \in {"cancelled", "dead"}
        /\ ~ENABLED WorkerStep

\* run() has returned from a run with two workers on each of the three queues
\* that stored a record
C6_Witness ==
    /\ pc = "done"
    /\ Len(tasks) = 6
    /\ \A w \in Range(tasks) : task[w].st = "cancelled"
    /\ \E a \in Arns : store_writes[a] > 0

\* C7: when the SWAG lookup fails during seeding, run() raises once, before
\* any task is created: nothing is enumerated, retrieved or stored.
C7_SeedingFailureBeforeWorkers ==
    pc = "raised" =>
        /\ swag_calls = 1
        /\ tasks = <<>>
        /\ DOMAIN task = {}
        /\ enum_calls = <<>>
        /\ results_log = {}
        /\ failed_arns = <<>>
        /\ failure_queue = <<>>
        /\ \A a \in Arns : arn_puts[a] = 0 /\ store_calls[a] = 0
        /\ ~ENABLED Next

\* run() raised after a literal account id had already been queued
C7_Witness ==
    /\ pc = "raised"
    /\ arg_accounts = <<ID1, ID2>>
    /\ account_queue.items = <<ID1>>

\* C8: seeding from account names never puts the same account id on the
\* account queue twice.
C8_AccountQueuedOnce ==
    (pc = "join_accounts" /\ arg_accounts # <<>> /\ arg_arns = <<>>) =>
        \A i, j \in 1..Len(account_queue.items) :
            i # j => account_queue.items[i] # account_queue.items[j]

\* C9: every requested token that is a literal account id is put on the
\* account queue and is not left among the names to resolve.
C9_LiteralIdsQueued ==
    (pc # "idle" /\ arg_accounts # <<>> /\ arg_arns = <<>>) =>
        \A i \in 1..Len(arg_accounts) :
            ReAccountIdMatch(arg_accounts[i]) =>
                /\ arg_accounts[i] \in Range(account_queue.items)
                /\ arg_accounts[i] \notin Range(NamesToResolve(arg_accounts))

\* C10: with a non-empty arns argument every ARN given is put on arn_queue,
\* SWAG is never called, the account queue stays empty, nothing is
\* enumerated, and the tasks are num_workers retriever workers and num_workers
\* results workers.
C10_ArnsSkipAccounts ==
    arg_arns # <<>> =>
        /\ \A a \in Arns : arn_puts[a] = CountPuts(arg_arns, a)
        /\ swag_calls = 0
        /\ account_queue = EmptyQueue
        /\ enum_calls = <<>>
        /\ tasks = PoolTasks("retriever", num_workers)
                   \o PoolTasks("results", num_workers)

\* run() returned after being given two ARNs together with an account list
C10_Witness ==
    /\ pc = "done"
    /\ arg_arns = <<"r1", "r2">>
    /\ arg_accounts # <<>>
    /\ num_workers = 2
    /\ store_writes["r1"] = 1

\* C11: once run() has left its failure loop, and so when it has returned,
\* the failure queue is empty and what it logged is every item ever put on
\* the failure queue, each once and in the order of the puts; and from the
\* moment cancel() was called no item is put on the failure queue any more.
C11_FailuresReportedOnce ==
    /\ [](pc \in {"gather", "done"} =>
            failure_queue = <<>> /\ reported = failure_puts)
    /\ [][CancelSent => failure_puts' = failure_puts]_vars

\* run() returned after an enumeration failure, a chain failure and a
\* storage failure were logged
C11_Witness ==
    /\ pc = "done"
    /\ \E i, j, k \in 1..Len(reported) :
        /\ reported[i].stage = "arn-lookup"
        /\ reported[j].stage = "retriever"
        /\ reported[k].stage = "results"

\* the accounts the run() arguments put on the account queue
SeededAccounts ==
    IF arg_arns # <<>> THEN <<>>
    ELSE IF arg_accounts # <<>> THEN QueueAccounts(arg_accounts, TRUE)
    ELSE AllAccountIds(SwagAccounts)

\* the ARNs the enumeration of an account returns before it ends or raises
EmittedBy(account) ==
    {a \in Arns :
        \E k \in 1..NumEnumCalls :
            /\ EnumFailAt(account) = 0 \/ k < EnumFailAt(account)
            /\ a \in Range(Enumerate(account, k))}

\* the ARNs the run() arguments and the collaborators put on the ARN queue
SeededArns ==
    IF arg_arns # <<>> THEN Range(arg_arns)
    ELSE UNION {EmittedBy(SeededAccounts[i]) : i \in 1..Len(SeededAccounts)}

\* C12: what a run() that returned has stored is a function of its
\* arguments and of what the collaborators answer, whatever the number of
\* workers and the order in which the tasks ran: a record for exactly the
\* ARNs that were queued, whose chain did not fail and whose write did not
\* fail, holding what the last retriever wrote. Two runs from the same
\* arguments therefore store the same records.
C12_StoredSetDetermined ==
    pc = "done" =>
        db = [a \in {x \in SeededArns : ~ChainFails(x) /\ x \notin store_fails} |->
                 retrievers[Len(retrievers)].value]

\* run() returned with two workers per pool after one ARN was stored, one
\* failed in its chain and one failed in storage
C12_Witness ==
    /\ pc = "done"
    /\ num_workers = 2
    /\ DOMAIN db = {"r1"}
    /\ SeededArns = {"r1", "u1", "r2"}

\* C13: every entry put on the account queue is taken off by one lookup
\* worker and _get_arns_for_account is called once for it: at any moment of
\* a run each account has been enumerated as many times as entries for it
\* have left the queue, never more often than it was queued, and once the
\* account queue is joined, exactly as often as it was queued.
C13_AccountEnumeratedOnce ==
    pc \notin {"idle", "swag", "raised"} =>
        \A account \in {ID1, ID2} :
            /\ CountPuts(enum_calls, account)
                   + CountPuts(account_queue.items, account)
                 = CountPuts(SeededAccounts, account)
            /\ pc # "join_accounts" =>
                   CountPuts(enum_calls, account)
                     = CountPuts(SeededAccounts, account)

\* the two accounts named by alias were each enumerated once, with two
\* lookup workers running, and the account queue is joined
C13_Witness ==
    /\ pc = "join_arns"
    /\ num_workers = 2
    /\ arg_accounts = <<DEV, P2>>
    /\ Len(enum_calls) = 2
    /\ {ID1, ID2} \subseteq Range(enum_calls)

\* the number of tasks of a pool that are at one of the positions
Holding(pool, positions) ==
    Cardinality({w \in DOMAIN task : Pool(w) = pool /\ task[w].st \in positions})

\* C14: an item taken from a queue is acknowledged once, by the task that
\* took it and after that task has put everything the item produces: the
\* items of a queue that are taken and not yet acknowledged are exactly the
\* items its running tasks are working on, so a queue is never drained while
\* a task still holds an item from it, and no task has ended holding one.
C14_AckByHolderAfterOutputs ==
    /\ InFlight(account_queue) = Holding("arn-lookup", {"call"})
    /\ InFlight(arn_queue) = Holding("retriever", {"call"})
    /\ InFlight(results_queue) = Holding("results", {"store"})
    /\ Drained(account_queue) => Holding("arn-lookup", {"call", "dead"}) = 0
    /\ Drained(arn_queue) => Holding("retriever", {"call", "dead"}) = 0
    /\ Drained(results_queue) => Holding("results", {"store", "dead"}) = 0

RECURSIVE CountAccountEvents(_, _)
CountAccountEvents(events, account) ==
    IF events = <<>> THEN 0
    ELSE (IF Head(events).stage = "arn-lookup" /\ Head(events).account = account
          THEN 1 ELSE 0)
         + CountAccountEvents(Tail(events), account)

\* the ARNs some call of the enumeration of an account returns
OwnedBy(account) ==
    {a \in Arns : \E k \in 1..NumEnumCalls : a \in Range(Enumerate(account, k))}

\* C15: when a call of the enumeration of an account raises, the account is
\* put on the failure queue once per enumeration and acknowledged, the ARNs
\* the earlier calls returned stay on the ARN queue and each of them gets its
\* outcome from the chain and storage, and the ARNs of the later calls are
\* never queued.
C15_PartialEnumerationKept ==
    \A account \in {ID1, ID2} :
        (EnumFailAt(account) > 0
         /\ pc \in {"join_arns", "join_results", "cancel", "report", "gather", "done"}) =>
            /\ CountAccountEvents(AllFailures, account)
                 = CountPuts(enum_calls, account)
            /\ Drained(account_queue)
            /\ \A a \in OwnedBy(account) :
                /\ arn_puts[a] = IF a \in EmittedBy(account)
                                 THEN CountPuts(enum_calls, account) ELSE 0
                /\ pc = "done" =>
                       arn_puts[a] = store_calls[a]
                                     + CountEvents(AllFailures, "retriever", a)

\* run() returned after the fourth call for the first account raised: the
\* role of its second call was stored, the user of its fifth call never
\* queued, the account logged as a failure
C15_Witness ==
    /\ pc = "done"
    /\ EnumFailAt(ID1) = 4
    /\ CountPuts(enum_calls, ID1) = 1
    /\ store_writes["r1"] = 1
    /\ arn_puts["u1"] = 0
    /\ CountAccountEvents(reported, ID1) = 1

\* C16: for every record a results task takes, store_role_data is called
\* once; a call that raises puts the whole record on the failure queue; the
\* record is acknowledged once either way. So a record that is taken and not
\* yet acknowledged is at its one store_role_data call, every call ended in a
\* stored record or in that record on the failure queue, and an ARN is never
\* written more often than it was queued.
C16_OneWritePerRecord ==
    /\ InFlight(results_queue) = Holding("results", {"store"})
    /\ \A a \in Arns :
        /\ store_calls[a] = store_writes[a] + CountEvents(AllFailures, "results", a)
        /\ store_calls[a] <= arn_puts[a]
    /\ \A i \in 1..Len(AllFailures) :
        AllFailures[i].stage = "results" =>
            <<AllFailures[i].data.arn, AllFailures[i].data>> \in results_log

\* what the first n retrievers, each run on what the one before returned,
\* make of the seed record of an ARN
RECURSIVE ChainPrefix(_, _)
ChainPrefix(arn, n) ==
    IF n = 0 THEN [arn |-> arn]
    ELSE RetrieverRun(retrievers[n], ChainPrefix(arn, n - 1))

\* the retriever numbers that were run for an ARN
StepsRun(a) == {e[2] : e \in {x \in step_log : x[1] = a}}

\* C17: the retrievers run for an ARN in registration order, each on the
\* record the one before it returned and the first on the seed record; no
\* retriever runs for an ARN after one raised for it; and when run() has
\* returned every queued ARN had its retrievers run up to the first that
\* raises for it, or all of them, whatever happened to other ARNs.
C17_StepsInRegistrationOrder ==
    /\ \A e \in step_log :
        /\ e[2] \in 1..Len(retrievers)
        /\ e[3] = ChainPrefix(e[1], e[2] - 1)
        /\ \A j \in 1..(e[2] - 1) :
            /\ e[1] \notin retrievers[j].failsOn
            /\ <<e[1], j, ChainPrefix(e[1], j - 1)>> \in step_log
    /\ \A w \in DOMAIN task :
        (Pool(w) = "retriever" /\ task[w].st = "call") =>
            /\ task[w].data = ChainPrefix(task[w].arn, task[w].k - 1)
            /\ \A j \in 1..(task[w].k - 1) : j \in StepsRun(task[w].arn)
    /\ pc = "done" =>
           \A a \in Arns :
               StepsRun(a) = IF arn_puts[a] = 0 THEN {}
                             ELSE IF ChainFails(a) THEN 1..FailingStep(a)
                             ELSE 1..Len(retrievers)

\* run() returned: all four retrievers ran for one ARN, the fourth on the
\* record of the third, and only the first two for the ARN the second
\* raises for
C17_Witness ==
    /\ pc = "done"
    /\ retrievers = <<SetX1, SetY, SetX2, AccessAdvisorRetriever({})>>
    /\ <<"r1", 4, [arn |-> "r1", x |-> "2", y |-> "1"]>> \in step_log
    /\ StepsRun("r2") = {1, 2}

\* C18: no task of any pool ends before cancel() is called: whatever a
\* collaborator raises and whatever record the chain returns, the loop
\* handles it, acknowledges the item and goes back to get().
C18_NoWorkerEndsBeforeCancel ==
    \A w \in DOMAIN task :
        task[w].st \in {"cancelled", "dead"} => CancelSent

\* C19: every run() of a RetrieverRunner works with the retrievers
\* registered before the first run() followed by one AccessAdvisorRetriever,
\* and no ARN has more retrievers run on it than that, however many times
\* run() was called before.
C19_SameChainEveryRun ==
    pc # "idle" =>
        \E reg \in Registered, aaf \in AAFailSets :
            /\ retrievers = Append(reg, AccessAdvisorRetriever(aaf))
            /\ \A e \in step_log : e[2] <= Len(reg) + 1

\* C20: each of the three queues has at most num_workers items taken and
\* not yet acknowledged, one per task that holds one; so at most num_workers
\* enumerations, num_workers chains and num_workers store_role_data calls
\* are in progress at any moment.
C20_AtMostNInFlight ==
    /\ InFlight(account_queue) \in 0..num_workers
    /\ InFlight(arn_queue) \in 0..num_workers
    /\ InFlight(results_queue) \in 0..num_workers
    /\ InFlight(account_queue) = Holding("arn-lookup", {"call", "dead"})
    /\ InFlight(arn_queue) = Holding("retriever", {"call", "dead"})
    /\ InFlight(results_queue) = Holding("results", {"store", "dead"})
    /\ Holding("arn-lookup", {"call"}) <= num_workers
    /\ Holding("retriever", {"call"}) <= num_workers
    /\ Holding("results", {"store"}) <= num_workers

\* with two workers per pool, two chains and a store_role_data call are in
\* progress while an enumeration is still running
C20_Witness ==
    /\ num_workers = 2
    /\ InFlight(account_queue) = 1
    /\ InFlight(arn_queue) = 2
    /\ Holding("results", {"store"}) = 1

====
